---------------------------- MODULE Spec2Model ----------------------------
(***************************************************************************)
(* The operator scripts of project-cache-in as one state machine.          *)
(*                                                                         *)
(* Every script is a linear pipeline of steps.  A step is one call the     *)
(* pipeline function makes to a step method (or one numbered block of a    *)
(* main function); it invokes external commands through the script's       *)
(* run_command and returns True or False, which the pipeline turns into    *)
(* "go on" or "return False / sys.exit(1)".  The environment decides the   *)
(* outcome of every external command: it exits 0, exits non-zero, its      *)
(* executable is missing, or the operator presses Ctrl+C while it runs.    *)
(***************************************************************************)
EXTENDS Integers, Sequences, FiniteSets, TLC

VARIABLES
    script,        \* which script file was started
    argv,          \* its command-line flags, in the order given
    os_type,       \* platform.system()
    installed,     \* executables found on PATH
    psycopg2,      \* TRUE iff "import psycopg2" succeeded at module load
    pc,            \* position of the current step in Pipeline
    state,         \* per step: PENDING, RUNNING, SUCCEEDED, FAILED
    results,       \* what each finished step returned, in order
    halted_early,  \* a step returned False and the pipeline returned False
    seq,           \* RUNNING, COMPLETED, HALTED, or ABORTED by an exception
    exc,           \* the exception that left the pipeline function, or "none"
    exit_code,     \* <<>> while the process lives, <<code>> once it exited
    cmds,          \* every external command invoked so far, with its outcome
    effects        \* what the run has changed outside the process, in order

vars == <<script, argv, os_type, installed, psycopg2, pc, state, results,
          halted_early, seq, exc, exit_code, cmds, effects>>

(***************************************************************************)
(* Bounds and program constants.                                           *)
(***************************************************************************)
MaxArgs == 2

ExitSuccess == 0

ExitFailure == 1

ExitInterrupted == 130

Scripts == {"run_backend", "setup_postgresql", "setup_and_run_docker",
            "run_docker", "run_docker_prod", "push_to_docker_hub"}

OSTypes == {"Windows", "Darwin", "Linux", "FreeBSD"}

(***************************************************************************)
(* Command lines.  A command is the token list the source passes to        *)
(* subprocess.run; its first token is the executable.  time.sleep is kept  *)
(* in the same form so that an interrupt can arrive during a sleep.        *)
(***************************************************************************)
SLEEP == "time.sleep"

Sleep(n) == <<SLEEP, n>>

Exe(cmd) == cmd[1]

DOCKER_USERNAME == "gm1026"

IMAGE_NAME == "intelliquiz-backend"

LOCAL_IMAGE == "project-cache-in-backend:latest"

DOCKER_HUB_IMAGE == "gm1026/intelliquiz-backend:latest"

\* The flags each script's argparse parser declares.
FlagsOf(s) ==
    CASE s = "run_backend" ->
            {"--clean-only", "--compile-only", "--no-tests", "--run-tests", "--offline"}
      [] s = "setup_postgresql" -> {"--skip-install"}
      [] s = "setup_and_run_docker" -> {"--pull", "--no-build", "--logs", "--stop"}
      [] s = "run_docker" -> {"--logs", "--stop", "--restart"}
      [] OTHER -> {}

\* The executables each script looks up on PATH.
ExesOf(s, os) ==
    CASE s = "run_backend" -> {"mvn", "java"}
      [] s = "setup_postgresql" ->
            IF os = "Windows" THEN {"psql"}
            ELSE IF os = "Darwin" THEN {"which", "brew"}
            ELSE IF os = "Linux" THEN {"which", "sudo"}
            ELSE {"which"}
      [] s = "setup_and_run_docker" -> {"docker", "docker-compose", "git"}
      [] s = "run_docker" -> {"docker", "docker-compose", "git"}
      [] s = "run_docker_prod" -> {"docker", "docker-compose"}
      [] OTHER -> {"docker"}

\* Command lines without repeated flags, at most MaxArgs long.
ArgLists(s) ==
    LET F == FlagsOf(s)
    IN  { a \in UNION { [1..n -> F] : n \in 0..MaxArgs } :
            \A i, j \in DOMAIN a : i # j => a[i] # a[j] }

Has(flag) == \E i \in DOMAIN argv : argv[i] = flag

\* --no-tests (store_true, default True) and --run-tests (store_false) share
\* the destination no_tests: the last one given wins.
no_tests ==
    LET I == { i \in DOMAIN argv : argv[i] \in {"--no-tests", "--run-tests"} }
    IN  IF I = {} THEN TRUE
        ELSE LET last == CHOOSE i \in I : \A j \in I : j <= i
             IN  argv[last] = "--no-tests"

\* argparse's namespace.
args == [clean_only   |-> Has("--clean-only"),
         compile_only |-> Has("--compile-only"),
         no_tests     |-> no_tests,
         offline      |-> Has("--offline"),
         skip_install |-> Has("--skip-install"),
         pull         |-> Has("--pull"),
         no_build     |-> Has("--no-build"),
         logs         |-> Has("--logs"),
         stop         |-> Has("--stop"),
         restart      |-> Has("--restart")]

(***************************************************************************)
(* What the environment can answer when subprocess.run(cmd) is called.     *)
(***************************************************************************)
OutcomesIn(cmd, inst) ==
    IF Exe(cmd) = SLEEP THEN {"ok", "interrupt"}
    ELSE IF Exe(cmd) \notin inst THEN {"notfound"}
    ELSE IF cmd = <<"which", "brew">>
         THEN (IF "brew" \in inst THEN {"ok", "interrupt"} ELSE {"nonzero", "interrupt"})
    ELSE {"ok", "nonzero", "interrupt"}

Outcomes(cmd) == OutcomesIn(cmd, installed)

Entry(cmd, out) == [cmd |-> cmd, out |-> out]

Interrupted(log) == \E i \in DOMAIN log : log[i].out = "interrupt"

\* A KeyboardInterrupt ends the method: nothing after it is invoked.
UpToInterrupt(log) ==
    IF Interrupted(log)
    THEN LET first == CHOOSE i \in DOMAIN log :
                        /\ log[i].out = "interrupt"
                        /\ \A j \in DOMAIN log : log[j].out = "interrupt" => i <= j
         IN  SubSeq(log, 1, first)
    ELSE log


(***************************************************************************)
(* run_command, once per script.  Each returns (success, output); only     *)
(* success is modelled.  KeyboardInterrupt is a BaseException: neither     *)
(* "except Exception" nor the named handlers catch it, so it is raised.    *)
(***************************************************************************)
BackendRunner_run_command(out) ==
    CASE out = "ok" -> "True"
      [] out = "nonzero" -> "False"
      [] out = "notfound" -> "False"
      [] OTHER -> "KeyboardInterrupt"

PostgreSQLSetup_run_command(out) ==
    CASE out = "ok" -> "True"
      [] out = "nonzero" -> "False"
      [] out = "notfound" -> "False"
      [] OTHER -> "KeyboardInterrupt"

DockerComposeRunner_run_command(out) ==
    CASE out = "ok" -> "True"
      [] out = "nonzero" -> "False"
      [] out = "notfound" -> "False"
      [] OTHER -> "KeyboardInterrupt"

FrontendDockerSetup_run_command(out) ==
    CASE out = "ok" -> "True"
      [] out = "nonzero" -> "False"
      [] out = "notfound" -> "False"
      [] OTHER -> "KeyboardInterrupt"

prod_run_command(out) ==
    CASE out = "ok" -> "True"
      [] out = "nonzero" -> "False"
      [] out = "notfound" -> "False"
      [] OTHER -> "KeyboardInterrupt"

push_run_command(out) ==
    CASE out = "ok" -> "True"
      [] out = "nonzero" -> "False"
      [] out = "notfound" -> "False"
      [] OTHER -> "KeyboardInterrupt"

(***************************************************************************)
(* The pipelines: the steps each pipeline function calls, in order, and    *)
(* what it does when the step returns False: "halt" for                    *)
(* "if not step(): return False" and for sys.exit(1), "continue" when the  *)
(* return value is ignored.  Methods that only print are left out.         *)
(***************************************************************************)
Step(name, on_fail) == [step |-> name, on_fail |-> on_fail]

run_full_pipeline ==
    << Step("check_maven_installed", "halt"),
       Step("check_backend_directory", "halt"),
       Step("clean_packages", "halt"),
       Step("install_dependencies", "halt"),
       Step("compile_project", "halt"),
       Step("run_application", "halt") >>

\* Mutant of clean_only: the clean-only mode goes on to compile.
clean_only_compiles ==
    << Step("check_backend_directory", "halt"),
       Step("clean_packages", "halt"),
       Step("compile_project", "halt") >>

clean_only ==
    << Step("check_backend_directory", "halt"),
       Step("clean_packages", "halt") >>

compile_only ==
    << Step("check_maven_installed", "halt"),
       Step("check_backend_directory", "halt"),
       Step("clean_packages", "halt"),
       Step("install_dependencies", "halt"),
       Step("compile_project", "halt") >>

run_setup ==
    << Step("check_postgresql", "halt"),
       Step("install_python_dependencies", "halt"),
       Step("create_database", "halt"),
       Step("setup_schema", "halt"),
       Step("save_configuration", "halt"),
       Step("test_connection", "halt") >>

\* Mutant of run_setup_and_start: the pull comes after the docker-compose.yml check.
run_setup_and_start_pull_late ==
    << Step("check_docker_installed", "halt"),
       Step("check_docker_daemon", "halt"),
       Step("check_docker_compose_installed", "halt"),
       Step("check_docker_compose_file", "halt") >>
    \o (IF args.pull THEN << Step("pull_latest_code", "continue") >> ELSE << >>)
    \o << Step("check_backend_dockerfile", "halt"),
          Step("build_and_start_containers", "halt"),
          Step("wait_for_services", "halt") >>
    \o (IF args.logs THEN << Step("view_logs", "continue") >> ELSE << >>)

run_setup_and_start ==
    << Step("check_docker_installed", "halt"),
       Step("check_docker_daemon", "halt"),
       Step("check_docker_compose_installed", "halt") >>
    \o (IF args.pull THEN << Step("pull_latest_code", "continue") >> ELSE << >>)
    \o << Step("check_docker_compose_file", "halt"),
          Step("check_backend_dockerfile", "halt"),
          Step("build_and_start_containers", "halt"),
          Step("wait_for_services", "halt") >>
    \o (IF args.logs THEN << Step("view_logs", "continue") >> ELSE << >>)

\* Mutant of FrontendDockerSetup_run: restart is tested before stop.
FrontendDockerSetup_run_restart_first ==
    IF args.restart THEN << Step("restart_containers", "halt") >>
    ELSE << Step("stop_containers", "halt") >>

FrontendDockerSetup_run ==
    IF args.stop THEN << Step("stop_containers", "halt") >>
    ELSE IF args.restart THEN << Step("restart_containers", "halt") >>
    ELSE << Step("check_docker", "halt"),
            Step("check_docker_compose", "halt"),
            Step("pull_latest_code", "continue"),
            Step("start_containers", "halt"),
            Step("wait_and_show_status", "continue") >>
         \o (IF args.logs THEN << Step("show_logs", "continue") >> ELSE << >>)

run_docker_prod_steps ==
    << Step("check_docker", "halt"),
       Step("check_docker_daemon", "halt"),
       Step("check_docker_compose", "halt"),
       Step("check_compose_file", "halt"),
       Step("pull_images", "halt"),
       Step("start_containers", "halt"),
       Step("wait_for_services", "continue"),
       Step("check_database", "continue"),
       Step("check_backend", "continue") >>

\* Mutant of push_to_docker_hub_steps: the image is tagged before the login.
push_to_docker_hub_steps_tag_first ==
    << Step("check_docker_daemon", "halt"),
       Step("check_local_image", "halt"),
       Step("tag_image", "halt"),
       Step("docker_login", "halt"),
       Step("push_image", "halt") >>

push_to_docker_hub_steps ==
    << Step("check_docker_daemon", "halt"),
       Step("check_local_image", "halt"),
       Step("docker_login", "halt"),
       Step("tag_image", "halt"),
       Step("push_image", "halt") >>

\* The mode dispatch of each main.
Pipeline ==
    CASE script = "run_backend" ->
            IF args.clean_only THEN clean_only
            ELSE IF args.compile_only THEN compile_only
            ELSE run_full_pipeline
      [] script = "setup_postgresql" -> run_setup
      [] script = "setup_and_run_docker" ->
            IF args.stop THEN << Step("stop_containers", "halt") >>
            ELSE run_setup_and_start
      [] script = "run_docker" -> FrontendDockerSetup_run
      [] script = "run_docker_prod" -> run_docker_prod_steps
      [] OTHER -> push_to_docker_hub_steps

Cur == Pipeline[pc]

(***************************************************************************)
(* Calling a step and acting on what it returns.                           *)
(***************************************************************************)
Terminal == {"SUCCEEDED", "FAILED"}

\* Mutants of Halts: the pipeline ignores every failure; it returns False on
\* any failure, best-effort or not; it tests the return value the wrong way round.
Halts_never(ret, on_fail) == FALSE

Halts_on_any_failure(ret, on_fail) == ret = "False"

Halts_inverted(ret, on_fail) == ret # "False" /\ on_fail = "halt"

\* "if not self.step(): return False" and "if not success: sys.exit(1)".
Halts(ret, on_fail) == ret = "False" /\ on_fail = "halt"

\* subprocess.run blocks until the command ends, so a step that returned is
\* over: SUCCEEDED unless it returned False.
StateAfter(ret) == IF ret = "False" THEN "FAILED" ELSE "SUCCEEDED"

\* Mutant of NextPc: the pipeline function leaves out a step.
NextPc_skips(p) == p + 2

\* The statement after a step is the next step of the pipeline function.
NextPc(p) == p + 1

Result(ret) ==
    [step        |-> Cur.step,
     succeeded   |-> ret # "False",
     best_effort |-> Cur.on_fail = "continue"]

\* One change made outside the process: by a command ("command"), by an SQL
\* statement sent through psycopg2 ("sql") or by the script's own open(.., 'w')
\* ("open"); op is "add" (created, written, started) or "remove".
Fx(by, op, what) == [by |-> by, op |-> op, what |-> what]

\* What each command of the scripts changes when it exits 0.
Effect(cmd) ==
    CASE cmd = <<"mvn", "clean">> -> << Fx("command", "remove", "target") >>
      [] cmd = <<"mvn", "dependency:resolve">> -> << Fx("command", "add", "maven_dependencies") >>
      [] Len(cmd) >= 3 /\ SubSeq(cmd, 1, 3) = <<"mvn", "clean", "package">> ->
            << Fx("command", "remove", "target"), Fx("command", "add", "target") >>
      [] Len(cmd) >= 3 /\ cmd[2] \in {"install", "apt", "yum", "dnf"} /\ cmd[3] = "install" ->
            << Fx("command", "add", "postgresql") >>
      [] cmd = <<"brew", "install", "postgresql">> -> << Fx("command", "add", "postgresql") >>
      [] cmd = <<"brew", "services", "start", "postgresql">> ->
            << Fx("command", "add", "postgresql_service") >>
      [] Len(cmd) = 5 /\ SubSeq(cmd, 1, 4) = <<"python", "-m", "pip", "install">> ->
            << Fx("command", "add", cmd[5]) >>
      [] cmd = <<"git", "pull">> -> << Fx("command", "add", "working_tree") >>
      [] Exe(cmd) = "docker-compose" /\ cmd[Len(cmd)] = "pull" ->
            << Fx("command", "add", "images") >>
      [] Exe(cmd) = "docker-compose" /\ \E i \in DOMAIN cmd : cmd[i] = "up" ->
            << Fx("command", "add", "containers") >>
      [] cmd = <<"docker-compose", "down">> -> << Fx("command", "remove", "containers") >>
      [] cmd = <<"docker-compose", "restart">> ->
            << Fx("command", "remove", "containers"), Fx("command", "add", "containers") >>
      [] cmd = <<"docker", "login">> -> << Fx("command", "add", "docker_credentials") >>
      [] Len(cmd) = 4 /\ SubSeq(cmd, 1, 2) = <<"docker", "tag">> ->
            << Fx("command", "add", cmd[4]) >>
      [] Len(cmd) = 3 /\ SubSeq(cmd, 1, 2) = <<"docker", "push">> ->
            << Fx("command", "add", "hub_image") >>
      [] OTHER -> << >>

RECURSIVE EffectsOf(_)
EffectsOf(log) ==
    IF log = << >> THEN << >>
    ELSE (IF Head(log).out = "ok" THEN Effect(Head(log).cmd) ELSE << >>)
         \o EffectsOf(Tail(log))

StampFx(fx) == [i \in DOMAIN fx |->
                  [idx |-> pc, step |-> Cur.step, by |-> fx[i].by, op |-> fx[i].op,
                   what |-> fx[i].what]]

\* Mutant of OnFailure: the failure branch takes the containers down.
OnFailure_rolls_back == << Entry(<<"docker-compose", "down">>, "ok") >>

\* The commands of the failure branch ("if not success: print(..);
\* sys.exit(1)", "if not self.step(): return False"): there are none.
OnFailure == << >>

\* Mutant of Record: only the most recent return value is kept.
Record_overwrites(r) == <<r>>

\* The return values of the steps called so far, in call order.
Record(r) == Append(results, r)

Stamp(log) == [i \in DOMAIN log |->
                 [idx |-> pc, step |-> Cur.step, cmd |-> log[i].cmd, out |-> log[i].out]]

Running(s, name) ==
    /\ script = s
    /\ seq = "RUNNING"
    /\ pc \in DOMAIN Pipeline
    /\ Cur.step = name
    /\ state[pc] = "RUNNING"

\* The step method returns ret ("True", "False", "None") or raises ret, after
\* invoking the commands of log and making the changes fx through psycopg2
\* or open(); inst is PATH as the step leaves it.
ReturnFx(ret, log, inst, fx) ==
    /\ LET after == IF Halts(ret, Cur.on_fail) THEN OnFailure ELSE << >>
       IN  /\ cmds' = cmds \o Stamp(log \o after)
           /\ effects' = effects \o StampFx(EffectsOf(log) \o fx \o EffectsOf(after))
    /\ installed' = inst
    /\ IF ret \in {"True", "False", "None"}
       THEN /\ state' = [state EXCEPT ![pc] = StateAfter(ret)]
            /\ results' = Record(Result(ret))
            /\ exc' = exc
            /\ IF Halts(ret, Cur.on_fail)
               THEN /\ halted_early' = TRUE
                    /\ seq' = "HALTED"
                    /\ pc' = pc
               ELSE /\ halted_early' = halted_early
                    /\ pc' = NextPc(pc)
                    /\ seq' = IF NextPc(pc) > Len(Pipeline) THEN "COMPLETED" ELSE "RUNNING"
       ELSE /\ exc' = ret
            /\ seq' = "ABORTED"
            /\ UNCHANGED <<state, results, halted_early, pc>>
    /\ UNCHANGED <<script, argv, os_type, psycopg2, exit_code>>

ReturnWith(ret, log, inst) == ReturnFx(ret, log, inst, << >>)

Return(ret, log) == ReturnWith(ret, log, installed)

\* Mutant of Begin: steps are launched without waiting for the one before.
Begin_without_waiting ==
    /\ seq = "RUNNING"
    /\ \E k \in DOMAIN Pipeline :
          /\ state[k] = "PENDING"
          /\ state' = [state EXCEPT ![k] = "RUNNING"]
    /\ UNCHANGED <<script, argv, os_type, installed, psycopg2, pc, results,
                   halted_early, seq, exc, exit_code, cmds, effects>>

\* The pipeline function reaches the call of its next step.
Begin ==
    /\ seq = "RUNNING"
    /\ pc \in DOMAIN Pipeline
    /\ state[pc] = "PENDING"
    /\ state' = [state EXCEPT ![pc] = "RUNNING"]
    /\ UNCHANGED <<script, argv, os_type, installed, psycopg2, pc, results,
                   halted_early, seq, exc, exit_code, cmds, effects>>

Init ==
    /\ script \in Scripts
    /\ argv \in ArgLists(script)
    /\ os_type \in (IF script = "setup_postgresql" THEN OSTypes ELSE {"Linux"})
    /\ installed \in { I \cup {"python"} : I \in SUBSET ExesOf(script, os_type) }
    /\ psycopg2 \in (IF script = "setup_postgresql" THEN BOOLEAN ELSE {TRUE})
    /\ pc = 1
    /\ state = [k \in DOMAIN Pipeline |-> "PENDING"]
    /\ results = << >>
    /\ halted_early = FALSE
    /\ seq = "RUNNING"
    /\ exc = "none"
    /\ exit_code = << >>
    /\ cmds = << >>
    /\ effects = << >>

(***************************************************************************)
(* script/run_backend.py                                                   *)
(***************************************************************************)
check_maven_installed ==
    /\ Running("run_backend", "check_maven_installed")
    /\ LET cmd == <<"mvn", "--version">>
       IN  \E out \in Outcomes(cmd) :
              Return(BackendRunner_run_command(out), <<Entry(cmd, out)>>)

check_backend_directory ==
    /\ Running("run_backend", "check_backend_directory")
    /\ \E backend_dir \in BOOLEAN, pom_xml \in BOOLEAN :
          Return(IF backend_dir /\ pom_xml THEN "True" ELSE "False", << >>)

clean_packages ==
    /\ Running("run_backend", "clean_packages")
    /\ LET cmd == <<"mvn", "clean">>
       IN  \E out \in Outcomes(cmd) :
              Return(BackendRunner_run_command(out), <<Entry(cmd, out)>>)

install_dependencies ==
    /\ Running("run_backend", "install_dependencies")
    /\ LET cmd == <<"mvn", "dependency:resolve">>
       IN  \E out \in Outcomes(cmd) :
              Return(BackendRunner_run_command(out), <<Entry(cmd, out)>>)

\* Mutant of compile_command: -DskipTests is always appended.
compile_command_always_skips(skip_tests) == <<"mvn", "clean", "package", "-DskipTests">>

compile_command(skip_tests) ==
    <<"mvn", "clean", "package">> \o (IF skip_tests THEN <<"-DskipTests">> ELSE << >>)

compile_project ==
    /\ Running("run_backend", "compile_project")
    /\ LET cmd == compile_command(args.no_tests)
       IN  \E out \in Outcomes(cmd) :
              Return(BackendRunner_run_command(out), <<Entry(cmd, out)>>)

\* Mutant of run_application_result: the except KeyboardInterrupt clause is
\* missing, so the interrupt leaves run_application.
run_application_result_uncaught(out) ==
    CASE out = "ok" -> "True"
      [] out = "interrupt" -> "KeyboardInterrupt"
      [] OTHER -> "False"

\* subprocess.run(["java", "-jar", jar], check=True) inside its own try:
\* KeyboardInterrupt returns True, any Exception returns False.
run_application_result(out) ==
    CASE out = "ok" -> "True"
      [] out = "interrupt" -> "True"
      [] OTHER -> "False"

run_application ==
    /\ Running("run_backend", "run_application")
    /\ \E jar_file \in BOOLEAN :
          IF ~jar_file
          THEN Return("False", << >>)
          ELSE LET cmd == <<"java", "-jar", "app.jar">>
               IN  \E out \in Outcomes(cmd) :
                      Return(run_application_result(out), <<Entry(cmd, out)>>)

(***************************************************************************)
(* script/setup_postgresql.py                                              *)
(***************************************************************************)
Exec(ret, log, inst) == [ret |-> ret, log |-> log, inst |-> inst]

\* One run_command call of setup_postgresql.py: the possible entries.
Calls(cmd, inst) == { Entry(cmd, out) : out \in OutcomesIn(cmd, inst) }

Ret(e) == PostgreSQLSetup_run_command(e.out)

detect_command ==
    IF os_type = "Windows" THEN <<"psql", "--version">> ELSE <<"which", "psql">>

\* The operator is told to install PostgreSQL by hand (and may do so while
\* input() waits); then check_postgresql_installed runs again.
install_postgresql_windows ==
    UNION { { Exec(Ret(e), <<e>>, installed \cup by_hand) :
                e \in Calls(detect_command, installed \cup by_hand) } :
            by_hand \in { {}, {"psql"} } }

install_postgresql_macos ==
    UNION { IF Ret(e1) # "True"
            THEN { Exec(Ret(e1), <<e1>>, installed) }
            ELSE UNION { IF Ret(e2) # "True"
                         THEN { Exec(Ret(e2), <<e1, e2>>, installed) }
                         ELSE { Exec(IF Ret(e3) = "KeyboardInterrupt"
                                     THEN "KeyboardInterrupt" ELSE "True",
                                     <<e1, e2, e3>>, installed) :
                                 e3 \in Calls(<<"brew", "services", "start", "postgresql">>,
                                              installed) } :
                         e2 \in Calls(<<"brew", "install", "postgresql">>, installed) } :
            e1 \in Calls(<<"which", "brew">>, installed) }

\* What runs once "which pm" has succeeded.
install_with(pm) ==
    IF pm = "apt"
    THEN UNION { IF Ret(u) = "KeyboardInterrupt"
                 THEN { Exec("KeyboardInterrupt", <<u>>, installed) }
                 ELSE { Exec(Ret(i), <<u, i>>, installed) :
                         i \in Calls(<<"sudo", "apt", "install", "-y",
                                       "postgresql", "postgresql-contrib">>, installed) } :
                 u \in Calls(<<"sudo", "apt", "update">>, installed) }
    ELSE { Exec(Ret(i), <<i>>, installed) :
            i \in Calls(<<"sudo", pm, "install", "-y",
                          "postgresql-server", "postgresql-contrib">>, installed) }

RECURSIVE install_postgresql_linux_from(_)
install_postgresql_linux_from(pms) ==
    IF pms = << >>
    THEN { Exec("False", << >>, installed) }
    ELSE UNION { IF Ret(w) = "KeyboardInterrupt"
                 THEN { Exec("KeyboardInterrupt", <<w>>, installed) }
                 ELSE { Exec(x.ret, <<w>> \o x.log, installed) :
                         x \in (IF Ret(w) = "True"
                                THEN install_with(Head(pms))
                                ELSE install_postgresql_linux_from(Tail(pms))) } :
                 w \in Calls(<<"which", Head(pms)>>, installed) }

install_postgresql_linux == install_postgresql_linux_from(<<"apt", "yum", "dnf">>)

install_postgresql ==
    CASE os_type = "Windows" -> install_postgresql_windows
      [] os_type = "Darwin" -> install_postgresql_macos
      [] os_type = "Linux" -> install_postgresql_linux
      [] OTHER -> { Exec("False", << >>, installed) }

\* Mutant of check_postgresql: --skip-install is ignored.
check_postgresql_ignoring_skip ==
    /\ Running("setup_postgresql", "check_postgresql")
    /\ \E e \in Calls(detect_command, installed) :
          IF Ret(e) # "False"
          THEN Return(Ret(e), <<e>>)
          ELSE \E x \in install_postgresql : ReturnWith(x.ret, <<e>> \o x.log, x.inst)

\* Step 1 of run_setup: detect PostgreSQL; if it is missing, give up under
\* --skip-install and install it otherwise.
check_postgresql ==
    /\ Running("setup_postgresql", "check_postgresql")
    /\ \E e \in Calls(detect_command, installed) :
          IF Ret(e) # "False"
          THEN Return(Ret(e), <<e>>)
          ELSE IF args.skip_install
          THEN Return("False", <<e>>)
          ELSE \E x \in install_postgresql : ReturnWith(x.ret, <<e>> \o x.log, x.inst)

pip_install(package) == <<"python", "-m", "pip", "install", package>>

\* Mutant of install_python_dependencies: a failed pip install is tried again.
install_python_dependencies_retrying ==
    /\ Running("setup_postgresql", "install_python_dependencies")
    /\ \E e1 \in Calls(pip_install("psycopg2-binary"), installed) :
          IF Ret(e1) = "False"
          THEN \E again \in Calls(pip_install("psycopg2-binary"), installed) :
                  Return(Ret(again), <<e1, again>>)
          ELSE IF Ret(e1) # "True"
          THEN Return(Ret(e1), <<e1>>)
          ELSE \E e2 \in Calls(pip_install("click"), installed) :
                  Return(Ret(e2), <<e1, e2>>)

install_python_dependencies ==
    /\ Running("setup_postgresql", "install_python_dependencies")
    /\ \E e1 \in Calls(pip_install("psycopg2-binary"), installed) :
          IF Ret(e1) # "True"
          THEN Return(Ret(e1), <<e1>>)
          ELSE \E e2 \in Calls(pip_install("click"), installed) :
                  Return(Ret(e2), <<e1, e2>>)

\* A method that talks to the server through psycopg2.  With the module
\* global psycopg2 = None, psycopg2.connect raises AttributeError inside the
\* try, and evaluating "except psycopg2.Error" raises it again, uncaught.
\* When it returns True it has made the changes fx, or none of them (the
\* database already exists, the DDL file is not there).
UsePsycopg2(fx) ==
    IF ~psycopg2
    THEN Return("AttributeError", << >>)
    ELSE \E ok \in BOOLEAN, done \in BOOLEAN :
            ReturnFx(IF ok THEN "True" ELSE "False", << >>, installed,
                     IF ok /\ done THEN fx ELSE << >>)

\* CREATE DATABASE, unless the database is already there.
create_database ==
    /\ Running("setup_postgresql", "create_database")
    /\ UsePsycopg2(<< Fx("sql", "add", "database") >>)

\* Executes complete_schema.sql and commits, unless the file is missing.
setup_schema ==
    /\ Running("setup_postgresql", "setup_schema")
    /\ UsePsycopg2(<< Fx("sql", "add", "schema") >>)

\* Mutant of ConfigFiles: a backup copy is written as well.
ConfigFiles_with_backup == << ".env.local", ".env.local.json", ".env.local.bak" >>

\* The files save_configuration opens for writing, in order.
ConfigFiles == << ".env.local", ".env.local.json" >>

\* Each open(.., 'w') can fail; the files written before it stay written and
\* the method returns False.
save_configuration ==
    /\ Running("setup_postgresql", "save_configuration")
    /\ \E n \in 0..Len(ConfigFiles) :
          ReturnFx(IF n = Len(ConfigFiles) THEN "True" ELSE "False", << >>, installed,
                   [i \in 1..n |-> Fx("open", "add", ConfigFiles[i])])

test_connection ==
    /\ Running("setup_postgresql", "test_connection")
    /\ UsePsycopg2(<< >>)

(***************************************************************************)
(* setup_and_run_docker.py                                                 *)
(***************************************************************************)
check_docker_installed ==
    /\ Running("setup_and_run_docker", "check_docker_installed")
    /\ LET cmd == <<"docker", "--version">>
       IN  \E out \in Outcomes(cmd) :
              Return(DockerComposeRunner_run_command(out), <<Entry(cmd, out)>>)

check_docker_daemon ==
    /\ Running("setup_and_run_docker", "check_docker_daemon")
    /\ LET cmd == <<"docker", "ps">>
       IN  \E out \in Outcomes(cmd) :
              Return(DockerComposeRunner_run_command(out), <<Entry(cmd, out)>>)

check_docker_compose_installed ==
    /\ Running("setup_and_run_docker", "check_docker_compose_installed")
    /\ LET cmd == <<"docker-compose", "--version">>
       IN  \E out \in Outcomes(cmd) :
              Return(DockerComposeRunner_run_command(out), <<Entry(cmd, out)>>)

\* Returns False without running git when there is no .git directory.
DockerComposeRunner_pull_latest_code ==
    /\ Running("setup_and_run_docker", "pull_latest_code")
    /\ \E git_dir \in BOOLEAN :
          IF ~git_dir
          THEN Return("False", << >>)
          ELSE LET cmd == <<"git", "pull">>
               IN  \E out \in Outcomes(cmd) :
                      Return(DockerComposeRunner_run_command(out), <<Entry(cmd, out)>>)

check_docker_compose_file ==
    /\ Running("setup_and_run_docker", "check_docker_compose_file")
    /\ \E exists \in BOOLEAN : Return(IF exists THEN "True" ELSE "False", << >>)

check_backend_dockerfile ==
    /\ Running("setup_and_run_docker", "check_backend_dockerfile")
    /\ \E exists \in BOOLEAN : Return(IF exists THEN "True" ELSE "False", << >>)

\* Mutant of up_command: --build is inserted whatever no_build says.
up_command_always_builds(no_build) == <<"docker-compose", "up", "--build", "-d">>

\* command.insert(2, "--build") unless no_build.
up_command(no_build) ==
    IF no_build THEN <<"docker-compose", "up", "-d">>
    ELSE <<"docker-compose", "up", "--build", "-d">>

build_and_start_containers ==
    /\ Running("setup_and_run_docker", "build_and_start_containers")
    /\ LET cmd == up_command(args.no_build)
       IN  \E out \in Outcomes(cmd) :
              Return(DockerComposeRunner_run_command(out), <<Entry(cmd, out)>>)

PG_ISREADY == <<"docker-compose", "exec", "-T", "db", "pg_isready", "-U", "postgres">>

WGET_HEALTH == <<"docker-compose", "exec", "-T", "backend", "wget", "-q", "-O", "-",
                 "http://localhost:8080/actuator/health">>

\* Sleeps, probes the database and the backend, prints either way and
\* returns True whatever the probes said.
wait_for_services ==
    /\ Running("setup_and_run_docker", "wait_for_services")
    /\ \E o0 \in Outcomes(Sleep("10")), o1 \in Outcomes(PG_ISREADY),
          o2 \in Outcomes(WGET_HEALTH) :
          LET log == UpToInterrupt(<<Entry(Sleep("10"), o0), Entry(PG_ISREADY, o1),
                                     Entry(WGET_HEALTH, o2)>>)
          IN  Return(IF Interrupted(log) THEN "KeyboardInterrupt" ELSE "True", log)

LOGS_F == <<"docker-compose", "logs", "-f">>

\* The result of run_command is dropped.
view_logs ==
    /\ Running("setup_and_run_docker", "view_logs")
    /\ \E out \in Outcomes(LOGS_F) :
          Return(IF DockerComposeRunner_run_command(out) = "KeyboardInterrupt"
                 THEN "KeyboardInterrupt" ELSE "None",
                 <<Entry(LOGS_F, out)>>)

DockerComposeRunner_stop_containers ==
    /\ Running("setup_and_run_docker", "stop_containers")
    /\ LET cmd == <<"docker-compose", "down">>
       IN  \E out \in Outcomes(cmd) :
              Return(DockerComposeRunner_run_command(out), <<Entry(cmd, out)>>)

(***************************************************************************)
(* run_docker.py                                                           *)
(***************************************************************************)
check_docker ==
    /\ Running("run_docker", "check_docker")
    /\ LET cmd == <<"docker", "ps">>
       IN  \E out \in Outcomes(cmd) :
              Return(FrontendDockerSetup_run_command(out), <<Entry(cmd, out)>>)

check_docker_compose ==
    /\ Running("run_docker", "check_docker_compose")
    /\ LET cmd == <<"docker-compose", "--version">>
       IN  \E out \in Outcomes(cmd) :
              Return(FrontendDockerSetup_run_command(out), <<Entry(cmd, out)>>)

\* "return True  # Don't fail on this"
FrontendDockerSetup_pull_latest_code ==
    /\ Running("run_docker", "pull_latest_code")
    /\ \E out \in Outcomes(<<"git", "pull">>) :
          Return(IF FrontendDockerSetup_run_command(out) = "KeyboardInterrupt"
                 THEN "KeyboardInterrupt" ELSE "True",
                 <<Entry(<<"git", "pull">>, out)>>)

start_containers ==
    /\ Running("run_docker", "start_containers")
    /\ LET cmd == <<"docker-compose", "up", "-d", "--build">>
       IN  \E out \in Outcomes(cmd) :
              Return(FrontendDockerSetup_run_command(out), <<Entry(cmd, out)>>)

wait_and_show_status ==
    /\ Running("run_docker", "wait_and_show_status")
    /\ \E out \in Outcomes(Sleep("10")) :
          Return(IF out = "interrupt" THEN "KeyboardInterrupt" ELSE "None",
                 <<Entry(Sleep("10"), out)>>)

\* try: run_command(logs -f)  except KeyboardInterrupt: print("Logs stopped.")
show_logs ==
    /\ Running("run_docker", "show_logs")
    /\ \E out \in Outcomes(LOGS_F) : Return("None", <<Entry(LOGS_F, out)>>)

FrontendDockerSetup_stop_containers ==
    /\ Running("run_docker", "stop_containers")
    /\ LET cmd == <<"docker-compose", "down">>
       IN  \E out \in Outcomes(cmd) :
              Return(FrontendDockerSetup_run_command(out), <<Entry(cmd, out)>>)

restart_containers ==
    /\ Running("run_docker", "restart_containers")
    /\ LET cmd == <<"docker-compose", "restart">>
       IN  \E out \in Outcomes(cmd), s1 \in Outcomes(Sleep("5")),
              s2 \in Outcomes(Sleep("10")) :
              IF FrontendDockerSetup_run_command(out) # "True"
              THEN Return(FrontendDockerSetup_run_command(out), <<Entry(cmd, out)>>)
              ELSE LET log == UpToInterrupt(<<Entry(cmd, out), Entry(Sleep("5"), s1),
                                              Entry(Sleep("10"), s2)>>)
                   IN  Return(IF Interrupted(log) THEN "KeyboardInterrupt" ELSE "True", log)

(***************************************************************************)
(* run_docker_prod.py: the numbered blocks of main.                        *)
(***************************************************************************)
COMPOSE_PROD == "docker-compose.prod.yml"

prod_check_docker ==
    /\ Running("run_docker_prod", "check_docker")
    /\ LET cmd == <<"docker", "--version">>
       IN  \E out \in Outcomes(cmd) :
              Return(prod_run_command(out), <<Entry(cmd, out)>>)

prod_check_docker_daemon ==
    /\ Running("run_docker_prod", "check_docker_daemon")
    /\ LET cmd == <<"docker", "ps">>
       IN  \E out \in Outcomes(cmd) :
              Return(prod_run_command(out), <<Entry(cmd, out)>>)

prod_check_docker_compose ==
    /\ Running("run_docker_prod", "check_docker_compose")
    /\ LET cmd == <<"docker-compose", "--version">>
       IN  \E out \in Outcomes(cmd) :
              Return(prod_run_command(out), <<Entry(cmd, out)>>)

prod_check_compose_file ==
    /\ Running("run_docker_prod", "check_compose_file")
    /\ \E exists \in BOOLEAN : Return(IF exists THEN "True" ELSE "False", << >>)

prod_pull_images ==
    /\ Running("run_docker_prod", "pull_images")
    /\ LET cmd == <<"docker-compose", "-f", COMPOSE_PROD, "pull">>
       IN  \E out \in Outcomes(cmd) :
              Return(prod_run_command(out), <<Entry(cmd, out)>>)

prod_start_containers ==
    /\ Running("run_docker_prod", "start_containers")
    /\ LET cmd == <<"docker-compose", "-f", COMPOSE_PROD, "up", "-d">>
       IN  \E out \in Outcomes(cmd) :
              Return(prod_run_command(out), <<Entry(cmd, out)>>)

prod_wait_for_services ==
    /\ Running("run_docker_prod", "wait_for_services")
    /\ \E out \in Outcomes(Sleep("10")) :
          Return(IF out = "interrupt" THEN "KeyboardInterrupt" ELSE "None",
                 <<Entry(Sleep("10"), out)>>)

\* print_status(False, "PostgreSQL: Not ready yet ...") and go on.
prod_check_database ==
    /\ Running("run_docker_prod", "check_database")
    /\ LET cmd == <<"docker-compose", "-f", COMPOSE_PROD, "exec", "-T", "db",
                  "pg_isready", "-U", "postgres">>
       IN  \E out \in Outcomes(cmd) :
              Return(prod_run_command(out), <<Entry(cmd, out)>>)

\* if success and "Up" in output
prod_check_backend ==
    /\ Running("run_docker_prod", "check_backend")
    /\ LET cmd == <<"docker", "ps", "--filter", "name=intelliquiz_backend",
                    "--format", "{{.Status}}">>
       IN  \E out \in Outcomes(cmd), up \in BOOLEAN :
              Return(IF prod_run_command(out) = "True"
                     THEN (IF up THEN "True" ELSE "False")
                     ELSE prod_run_command(out),
                     <<Entry(cmd, out)>>)

(***************************************************************************)
(* push_to_docker_hub.py: the numbered blocks of main.                     *)
(***************************************************************************)
push_check_docker_daemon ==
    /\ Running("push_to_docker_hub", "check_docker_daemon")
    /\ LET cmd == <<"docker", "ps">>
       IN  \E out \in Outcomes(cmd) :
              Return(push_run_command(out), <<Entry(cmd, out)>>)

\* subprocess.run called directly; only CalledProcessError is caught.
check_local_image_result(out) ==
    CASE out = "ok" -> "True"
      [] out = "nonzero" -> "False"
      [] out = "notfound" -> "FileNotFoundError"
      [] OTHER -> "KeyboardInterrupt"

push_check_local_image ==
    /\ Running("push_to_docker_hub", "check_local_image")
    /\ LET cmd == <<"docker", "image", "inspect", LOCAL_IMAGE>>
       IN  \E out \in Outcomes(cmd) :
              Return(check_local_image_result(out), <<Entry(cmd, out)>>)

push_docker_login ==
    /\ Running("push_to_docker_hub", "docker_login")
    /\ LET cmd == <<"docker", "login">>
       IN  \E out \in Outcomes(cmd) :
              Return(push_run_command(out), <<Entry(cmd, out)>>)

push_tag_image ==
    /\ Running("push_to_docker_hub", "tag_image")
    /\ LET cmd == <<"docker", "tag", LOCAL_IMAGE, DOCKER_HUB_IMAGE>>
       IN  \E out \in Outcomes(cmd) :
              Return(push_run_command(out), <<Entry(cmd, out)>>)

push_image ==
    /\ Running("push_to_docker_hub", "push_image")
    /\ LET cmd == <<"docker", "push", DOCKER_HUB_IMAGE>>
       IN  \E out \in Outcomes(cmd) :
              Return(push_run_command(out), <<Entry(cmd, out)>>)

(***************************************************************************)
(* How each main turns the end of the pipeline into an exit status.        *)
(***************************************************************************)
\* What the pipeline function handed to main: its return value or the
\* exception that left it.
How ==
    CASE seq = "COMPLETED" -> "True"
      [] seq = "HALTED" -> "False"
      [] OTHER -> exc

\* No handler: the interpreter prints a traceback and exits 1; for
\* KeyboardInterrupt, newer interpreters instead die of SIGINT (130).
Uncaught(e) ==
    IF e = "KeyboardInterrupt" THEN {ExitFailure, ExitInterrupted} ELSE {ExitFailure}

\* sys.exit(0 if success else 1); except KeyboardInterrupt: 130;
\* except Exception: 1
run_backend_main(how) ==
    CASE how = "True" -> {ExitSuccess}
      [] how = "False" -> {ExitFailure}
      [] how = "KeyboardInterrupt" -> {ExitInterrupted}
      [] OTHER -> {ExitFailure}

\* Mutant of setup_and_run_docker_main: the exit statuses are swapped.
setup_and_run_docker_main_swapped(how) ==
    CASE how = "True" -> {ExitFailure}
      [] how = "False" -> {ExitSuccess}
      [] how = "KeyboardInterrupt" -> {ExitInterrupted}
      [] OTHER -> {ExitFailure}

setup_and_run_docker_main(how) ==
    CASE how = "True" -> {ExitSuccess}
      [] how = "False" -> {ExitFailure}
      [] how = "KeyboardInterrupt" -> {ExitInterrupted}
      [] OTHER -> {ExitFailure}

\* Only KeyboardInterrupt is handled.
run_docker_main(how) ==
    CASE how = "True" -> {ExitSuccess}
      [] how = "False" -> {ExitFailure}
      [] how = "KeyboardInterrupt" -> {ExitInterrupted}
      [] OTHER -> Uncaught(how)

\* No try at all.
setup_postgresql_main(how) ==
    CASE how = "True" -> {ExitSuccess}
      [] how = "False" -> {ExitFailure}
      [] OTHER -> Uncaught(how)

\* sys.exit(1) in the failing block; falling off the end of main exits 0.
run_docker_prod_main(how) ==
    CASE how = "True" -> {ExitSuccess}
      [] how = "False" -> {ExitFailure}
      [] OTHER -> Uncaught(how)

push_to_docker_hub_main(how) ==
    CASE how = "True" -> {ExitSuccess}
      [] how = "False" -> {ExitFailure}
      [] OTHER -> Uncaught(how)

ExitCodes ==
    CASE script = "run_backend" -> run_backend_main(How)
      [] script = "setup_postgresql" -> setup_postgresql_main(How)
      [] script = "setup_and_run_docker" -> setup_and_run_docker_main(How)
      [] script = "run_docker" -> run_docker_main(How)
      [] script = "run_docker_prod" -> run_docker_prod_main(How)
      [] OTHER -> push_to_docker_hub_main(How)

\* The process exits.
Exit ==
    /\ seq # "RUNNING"
    /\ exit_code = << >>
    /\ \E code \in ExitCodes : exit_code' = <<code>>
    /\ UNCHANGED <<script, argv, os_type, installed, psycopg2, pc, state, results,
                   halted_early, seq, exc, cmds, effects>>

Next ==
    \/ Begin
    \/ check_maven_installed
    \/ check_backend_directory
    \/ clean_packages
    \/ install_dependencies
    \/ compile_project
    \/ run_application
    \/ check_postgresql
    \/ install_python_dependencies
    \/ create_database
    \/ setup_schema
    \/ save_configuration
    \/ test_connection
    \/ check_docker_installed
    \/ check_docker_daemon
    \/ check_docker_compose_installed
    \/ DockerComposeRunner_pull_latest_code
    \/ check_docker_compose_file
    \/ check_backend_dockerfile
    \/ build_and_start_containers
    \/ wait_for_services
    \/ view_logs
    \/ DockerComposeRunner_stop_containers
    \/ check_docker
    \/ check_docker_compose
    \/ FrontendDockerSetup_pull_latest_code
    \/ start_containers
    \/ wait_and_show_status
    \/ show_logs
    \/ FrontendDockerSetup_stop_containers
    \/ restart_containers
    \/ prod_check_docker
    \/ prod_check_docker_daemon
    \/ prod_check_docker_compose
    \/ prod_check_compose_file
    \/ prod_pull_images
    \/ prod_start_containers
    \/ prod_wait_for_services
    \/ prod_check_database
    \/ prod_check_backend
    \/ push_check_docker_daemon
    \/ push_check_local_image
    \/ push_docker_login
    \/ push_tag_image
    \/ push_image
    \/ Exit

Spec == Init /\ [][Next]_vars

\* The interpreter always executes its next statement, and every external
\* command and every sleep comes back (with an exit status or an interrupt):
\* a step that can be taken is taken.
FairSpec == Spec /\ WF_vars(Next)

TypeOK ==
    /\ script \in Scripts
    /\ pc \in 1..(Len(Pipeline) + 1)
    /\ \A k \in DOMAIN state : state[k] \in {"PENDING", "RUNNING", "SUCCEEDED", "FAILED"}
    /\ halted_early \in BOOLEAN
    /\ seq \in {"RUNNING", "COMPLETED", "HALTED", "ABORTED"}
    /\ Len(exit_code) <= 1
    /\ Len(results) <= Len(Pipeline)

(***************************************************************************)
(* Properties.                                                             *)
(***************************************************************************)
Exited == exit_code # << >>

ExitCode == exit_code[1]

Failed(r) == ~r.succeeded

CommandFailed(e) == e.out \in {"nonzero", "notfound"}

\* results[i] is the result of the i-th step of the pipeline.
ResultsFollowPipeline ==
    /\ Len(results) <= Len(Pipeline)
    /\ \A i \in DOMAIN results :
          /\ results[i].step = Pipeline[i].step
          /\ results[i].best_effort = (Pipeline[i].on_fail = "continue")

\* C1: fail-fast.  When the step at position i returns False and is not
\* best-effort, the outcome holds exactly the results of steps 1..i, the
\* sequence is halted early, and no step after i was started or ran a command.
C1_FailFast ==
    /\ ResultsFollowPipeline
    /\ \A i \in DOMAIN results :
          (Failed(results[i]) /\ ~results[i].best_effort) =>
             /\ Len(results) = i
             /\ halted_early
             /\ seq = "HALTED"
             /\ \A k \in DOMAIN state : k > i => state[k] = "PENDING"
             /\ \A j \in DOMAIN cmds : cmds[j].idx <= i

C1_Witness ==
    /\ Exited
    /\ halted_early
    /\ Len(results) = 3
    /\ Len(Pipeline) > 3
    /\ Failed(results[3])
    /\ results[1].succeeded /\ results[2].succeeded

\* The git pull step is leaving with a failure: no .git directory (no command
\* was run and it returned False), or "git pull" exited non-zero or git is
\* missing.
PullFinishesFailed ==
    /\ script \in {"run_docker", "setup_and_run_docker"}
    /\ seq = "RUNNING"
    /\ pc \in DOMAIN Pipeline
    /\ Cur.step = "pull_latest_code"
    /\ state[pc] = "RUNNING"
    /\ state'[pc] \in Terminal
    /\ \/ Len(cmds') = Len(cmds)
       \/ Len(cmds') > Len(cmds) /\ CommandFailed(cmds'[Len(cmds')])

\* C2: a failed git pull (the best-effort step of run_docker.py and of
\* setup_and_run_docker.py --pull) never sets halted_early and never stops
\* the pipeline: its result is recorded and the next step is the one to run.
C2_BestEffortContinues ==
    [][ PullFinishesFailed =>
          /\ ~halted_early'
          /\ seq' = "RUNNING"
          /\ Len(results') = Len(results) + 1
          /\ pc' = pc + 1
          /\ pc' \in DOMAIN Pipeline
          /\ state'[pc'] = "PENDING" ]_vars

\* setup_and_run_docker.py --pull with git missing ran to the end and exited 0.
C2_Witness ==
    /\ script = "setup_and_run_docker"
    /\ Exited /\ ExitCode = ExitSuccess
    /\ \E i \in DOMAIN cmds : cmds[i].cmd = <<"git", "pull">> /\ CommandFailed(cmds[i])
    /\ \E i \in DOMAIN results : results[i].step = "pull_latest_code" /\ Failed(results[i])

\* C3: when a run ends and no step failed, the sequence was not halted
\* early, every step of the pipeline ran exactly once (one result per step,
\* in pipeline order, every step SUCCEEDED), and results is as long as the
\* pipeline.
C3_AllSucceed ==
    (seq \in {"COMPLETED", "HALTED"} /\ \A i \in DOMAIN results : results[i].succeeded) =>
       /\ ~halted_early
       /\ Len(results) = Len(Pipeline)
       /\ \A k \in DOMAIN Pipeline :
             /\ state[k] = "SUCCEEDED"
             /\ results[k].step = Pipeline[k].step

C3_Witness ==
    /\ Exited /\ ExitCode = ExitSuccess
    /\ seq = "COMPLETED"
    /\ Len(results) >= 6
    /\ \A i \in DOMAIN results : results[i].succeeded

AtMostOneRunning ==
    Cardinality({ k \in DOMAIN state : state[k] = "RUNNING" }) <= 1

\* A step enters RUNNING only when every earlier step is SUCCEEDED or FAILED
\* and every later step is still PENDING.
StartsInOrder ==
    \A k \in DOMAIN state :
       (state[k] # "RUNNING" /\ state'[k] = "RUNNING") =>
          /\ \A j \in DOMAIN state : j < k => state[j] \in Terminal
          /\ \A j \in DOMAIN state : j > k => state[j] = "PENDING"

\* C4: steps run in declaration order, one at a time: at most one step is
\* RUNNING in any state, and step k+1 enters RUNNING only after step k is
\* SUCCEEDED or FAILED.
C4_InOrderOneAtATime == [](AtMostOneRunning) /\ [][StartsInOrder]_vars

C4_Witness ==
    /\ script = "run_docker_prod"
    /\ \E k \in DOMAIN state :
          /\ k >= 8
          /\ state[k] = "RUNNING"
          /\ \A j \in 1..(k - 1) : state[j] \in Terminal

\* The claim C5 as written: once a run has ended by returning to main, the
\* exit code is 0 exactly when the sequence was not halted early and every
\* step result, best-effort steps and health checks included, succeeded.
C5_Original ==
    (Exited /\ seq \in {"COMPLETED", "HALTED"}) =>
       ((ExitCode = ExitSuccess) <=>
          (~halted_early /\ \A i \in DOMAIN results : results[i].succeeded))

\* C5 (amended): the exit code is 0 exactly when the sequence was not halted
\* early and no exception or interrupt left the pipeline function; a failed
\* best-effort step or health check does not make it non-zero.  A halted
\* sequence exits with 1.
C5_ExitCode ==
    Exited =>
       /\ (ExitCode = ExitSuccess) <=> (~halted_early /\ exc = "none")
       /\ halted_early => ExitCode = ExitFailure

\* run_docker_prod.py exits 0 although a health check of step 8 failed.
C5_Witness ==
    /\ script = "run_docker_prod"
    /\ Exited /\ ExitCode = ExitSuccess
    /\ ~halted_early
    /\ \E i \in DOMAIN results :
          /\ results[i].step \in {"check_database", "check_backend"}
          /\ Failed(results[i])

\* C6: if halted_early is true, the last element of results has
\* succeeded = false and comes from a step that is not best-effort (the
\* pipeline returns False when that step does).
C6_HaltedLastFailed ==
    halted_early =>
       /\ results # << >>
       /\ Failed(results[Len(results)])
       /\ ~results[Len(results)].best_effort
       /\ Len(results) <= Len(Pipeline)
       /\ Pipeline[Len(results)].step = results[Len(results)].step
       /\ Pipeline[Len(results)].on_fail = "halt"

\* A run that went past a failed best-effort step and was halted later.
C6_Witness ==
    /\ halted_early
    /\ Exited
    /\ \E i \in DOMAIN results :
          i < Len(results) /\ Failed(results[i]) /\ results[i].best_effort

\* Scripts whose main has "except KeyboardInterrupt: sys.exit(130)".
HandlesInterrupt == {"run_backend", "run_docker", "setup_and_run_docker"}

\* The two steps that catch KeyboardInterrupt themselves ("Press Ctrl+C to
\* stop", "Showing logs (Ctrl+C to exit)").
CatchesInterrupt(e) ==
    \/ script = "run_backend" /\ e.step = "run_application"
    \/ script = "run_docker" /\ e.step = "show_logs"

Probe(e) == e.cmd[1] = "which" \/ e.cmd = <<"psql", "--version">>

Finished(e) == e.idx \in DOMAIN results

\* C8: no error is swallowed outside the best-effort git pull.  Whenever a
\* command of a finished step failed (non-zero exit or missing executable)
\* and the step is not pull_latest_code, the step reported failure.
C8_NoSwallow ==
    \A i \in DOMAIN cmds :
       (CommandFailed(cmds[i]) /\ ~Probe(cmds[i]) /\ Finished(cmds[i])
          /\ cmds[i].step # "pull_latest_code") =>
          Failed(results[cmds[i].idx])

\* C9: both error kinds become a failed step result.  For every
\* command-running step of every script, a command that exited non-zero or
\* whose executable is missing made its step report failure, and no
\* FileNotFoundError ever left a step.
C9_BothKinds ==
    /\ exc # "FileNotFoundError"
    /\ \A i \in DOMAIN cmds :
          (Finished(cmds[i]) /\ ~Probe(cmds[i])) =>
             /\ cmds[i].out = "nonzero" => Failed(results[cmds[i].idx])
             /\ cmds[i].out = "notfound" => Failed(results[cmds[i].idx])

SameCall(a, b) == a.idx = b.idx /\ a.cmd = b.cmd

NoRepeatedCommand ==
    \A i, j \in DOMAIN cmds : (i # j) => ~SameCall(cmds[i], cmds[j])

\* A step only ever moves PENDING -> RUNNING -> (SUCCEEDED | FAILED).
StepMoves ==
    \A k \in DOMAIN state :
       state'[k] # state[k] =>
          \/ state[k] = "PENDING" /\ state'[k] = "RUNNING"
          \/ state[k] = "RUNNING" /\ state'[k] \in Terminal

\* Once the sequence is COMPLETED or HALTED nothing runs any more.
EndedStays ==
    seq \in {"COMPLETED", "HALTED"} =>
       /\ seq' = seq
       /\ state' = state
       /\ results' = results
       /\ cmds' = cmds

\* No step is RUNNING in an ended sequence, and every step has at most one result.
EndedIsQuiet ==
    /\ seq \in {"COMPLETED", "HALTED"} => \A k \in DOMAIN state : state[k] # "RUNNING"
    /\ \A i, j \in DOMAIN results : i # j => results[i].step # results[j].step

\* The claim C10 as written, in its state form: no step invoked the same
\* external command twice, every step has at most one result, and an ended
\* sequence has no step running.
C10_Original == NoRepeatedCommand /\ EndedIsQuiet

\* The one command that is run again: PostgreSQL detection on Windows, after
\* the operator was told to install PostgreSQL by hand.
Recheck(e) ==
    /\ script = "setup_postgresql"
    /\ os_type = "Windows"
    /\ ~args.skip_install
    /\ e.step = "check_postgresql"
    /\ e.cmd = <<"psql", "--version">>

NoRepeatExceptRecheck ==
    /\ \A i, j \in DOMAIN cmds :
          (i # j /\ SameCall(cmds[i], cmds[j])) => Recheck(cmds[i])
    /\ \A i, j, k \in DOMAIN cmds :
          (i < j /\ j < k) => ~(SameCall(cmds[i], cmds[j]) /\ SameCall(cmds[j], cmds[k]))

\* C10 (amended): no retries and terminal states are final, except that
\* setup_postgresql.py on Windows runs the detection command
\* "psql --version" a second time (once) inside step 1 after asking the
\* operator to install PostgreSQL.  Every other command is invoked at most
\* once per step; each step moves only PENDING -> RUNNING -> (SUCCEEDED |
\* FAILED) and then never changes; a COMPLETED or HALTED sequence runs
\* nothing more.
C10_NoRetries ==
    [](NoRepeatExceptRecheck /\ EndedIsQuiet) /\ [][StepMoves /\ EndedStays]_vars

\* Windows: detection failed, the operator installed PostgreSQL, the second
\* detection succeeded and step 1 returned True.
C10_Witness ==
    /\ Exited
    /\ \E i, j \in DOMAIN cmds :
          /\ i < j
          /\ SameCall(cmds[i], cmds[j])
          /\ CommandFailed(cmds[i])
          /\ cmds[j].out = "ok"
    /\ results # << >>
    /\ results[1].succeeded

Undoes(a, b) == a.op = "add" /\ b.op = "remove" /\ a.what = b.what

\* In a halted run the failing step ended with its failing command (or ran
\* none), removed nothing, and nothing that an earlier step created, wrote
\* or started was removed afterwards.
NoCompensation ==
    halted_early =>
       /\ \A j \in DOMAIN cmds :
             (j = Len(cmds) /\ cmds[j].idx = Len(results)) => CommandFailed(cmds[j])
       /\ \A j \in DOMAIN cmds : cmds[j].idx <= Len(results)
       /\ \A j \in DOMAIN effects :
             effects[j].idx = Len(results) => effects[j].op = "add"
       /\ \A i, j \in DOMAIN effects : i < j => ~Undoes(effects[i], effects[j])

\* After the halt nothing is invoked and nothing is changed.
HaltedIsLeftAsIs == halted_early => (cmds' = cmds /\ effects' = effects)

\* C12: no rollback.  When a step fails and the sequence halts, the script
\* invokes no compensating command and makes no further change: everything
\* the earlier successful steps created, wrote or started is still recorded
\* as present, unchanged, when the process exits.
C12_NoRollback == [](NoCompensation) /\ [][HaltedIsLeftAsIs]_vars

\* setup_postgresql.py halted at a later step after it had created the
\* database and written a configuration file; push_to_docker_hub.py halted
\* at the push after it had tagged the image.
C12_Witness ==
    /\ Exited /\ ExitCode = ExitFailure
    /\ halted_early
    /\ \/ /\ script = "setup_postgresql"
          /\ \E i, j \in DOMAIN effects :
                /\ effects[i].what = "database" /\ effects[i].idx < Len(results)
                /\ effects[j].what = ".env.local" /\ effects[j].idx <= Len(results)
       \/ /\ script = "push_to_docker_hub"
          /\ results[Len(results)].step = "push_image"
          /\ \E i \in DOMAIN effects : effects[i].what = DOCKER_HUB_IMAGE

\* The files the script's own code has opened for writing.
WrittenByScript == { effects[i].what : i \in { j \in DOMAIN effects : effects[j].by = "open" } }

\* The claim C13 as written: the only file a script itself creates or
\* modifies is the environment file .env.local.
C13_Original == WrittenByScript \subseteq {".env.local"}

\* C13 (amended): the only files a script itself creates or modifies are the
\* environment file .env.local and its JSON copy .env.local.json, both
\* written by the save_configuration step of setup_postgresql.py, each at
\* most once and the copy only after .env.local; no other script writes a file.
C13_OnlyConfigFiles ==
    /\ WrittenByScript \subseteq {".env.local", ".env.local.json"}
    /\ \A i \in DOMAIN effects :
          effects[i].by = "open" =>
             /\ script = "setup_postgresql"
             /\ effects[i].step = "save_configuration"
             /\ effects[i].op = "add"
    /\ \A i, j \in DOMAIN effects :
          (effects[i].by = "open" /\ effects[j].by = "open" /\ i # j) =>
             effects[i].what # effects[j].what
    /\ ".env.local.json" \in WrittenByScript => ".env.local" \in WrittenByScript

\* setup_postgresql.py ran to the end, exited 0 and wrote both files.
C13_Witness ==
    /\ script = "setup_postgresql"
    /\ Exited /\ ExitCode = ExitSuccess
    /\ WrittenByScript = {".env.local", ".env.local.json"}

\* The commands of push_to_docker_hub.py in the order the claim gives them.
PushOrder ==
    << <<"docker", "ps">>,
       <<"docker", "image", "inspect", "project-cache-in-backend:latest">>,
       <<"docker", "login">>,
       <<"docker", "tag", "project-cache-in-backend:latest",
         "gm1026/intelliquiz-backend:latest">>,
       <<"docker", "push", "gm1026/intelliquiz-backend:latest">> >>

\* C14: in push_to_docker_hub.py the commands run are a prefix of: daemon
\* check, local-image check, docker login, docker tag, docker push; each one
\* is run only after every one before it exited 0 in the same run (so the
\* push needs all four, and the tag needs the login); the first failure
\* among them is the last command run and the process exits with code 1.
C14_PushOrdering ==
    script = "push_to_docker_hub" =>
       /\ Len(cmds) <= Len(PushOrder)
       /\ \A j \in DOMAIN cmds :
             /\ cmds[j].cmd = PushOrder[j]
             /\ \A i \in 1..(j - 1) : cmds[i].out = "ok"
             /\ CommandFailed(cmds[j]) =>
                   /\ j = Len(cmds)
                   /\ seq = "HALTED"
                   /\ Exited => ExitCode = ExitFailure

\* The login failed: the run exited 1 and neither tag nor push was run.
C14_Witness ==
    /\ script = "push_to_docker_hub"
    /\ Exited /\ ExitCode = ExitFailure
    /\ Len(cmds) = 3
    /\ cmds[3].cmd = <<"docker", "login">>
    /\ CommandFailed(cmds[3])

Mentions(cmd, token) == \E k \in DOMAIN cmd : cmd[k] = token

\* C15: run_backend.py --offline requests offline resolution.  Once the
\* dependency step of a run started with --offline has invoked Maven, some
\* Maven command of the run carries Maven's offline switch (-o / --offline).
C15_Offline ==
    ( /\ script = "run_backend"
      /\ Has("--offline")
      /\ \E j \in DOMAIN cmds : cmds[j].step = "install_dependencies" ) =>
       \E j \in DOMAIN cmds :
          /\ Exe(cmds[j].cmd) = "mvn"
          /\ Mentions(cmds[j].cmd, "-o") \/ Mentions(cmds[j].cmd, "--offline")

\* C16: run_backend.py mode guarantees.  With --compile-only no "java"
\* command is invoked and run_application never returns a result; with
\* --clean-only, whether or not --compile-only is given too, the only
\* command invoked is "mvn clean" (at most once) and no dependency,
\* compile or application step runs.
C16_Modes ==
    script = "run_backend" =>
       /\ (Has("--compile-only") \/ Has("--clean-only")) =>
             /\ \A j \in DOMAIN cmds : Exe(cmds[j].cmd) # "java"
             /\ \A i \in DOMAIN results : results[i].step # "run_application"
             /\ \A k \in DOMAIN Pipeline : Pipeline[k].step # "run_application"
       /\ Has("--clean-only") =>
             /\ Len(cmds) <= 1
             /\ \A j \in DOMAIN cmds : cmds[j].cmd = <<"mvn", "clean">>
             /\ \A i \in DOMAIN results :
                   results[i].step \in {"check_backend_directory", "clean_packages"}
             /\ \A k \in DOMAIN Pipeline :
                   Pipeline[k].step \in {"check_backend_directory", "clean_packages"}

\* run_backend.py --compile-only --clean-only (in either order) cleaned,
\* exited 0 and ran nothing else.
C16_Witness ==
    /\ script = "run_backend"
    /\ Has("--compile-only") /\ Has("--clean-only")
    /\ Exited /\ ExitCode = ExitSuccess
    /\ Len(cmds) = 1
    /\ cmds[1].cmd = <<"mvn", "clean">>

IsCompile(cmd) == Len(cmd) >= 3 /\ SubSeq(cmd, 1, 3) = <<"mvn", "clean", "package">>

\* --run-tests is given and no --no-tests comes after it.
RunTestsWins ==
    \E i \in DOMAIN argv :
       /\ argv[i] = "--run-tests"
       /\ \A j \in DOMAIN argv : j > i => argv[j] # "--no-tests"

\* The claim C17 as written: the compile command carries -DskipTests for
\* every argument combination except those containing --run-tests.
C17_Original ==
    script = "run_backend" =>
       \A j \in DOMAIN cmds :
          IsCompile(cmds[j].cmd) =>
             (Mentions(cmds[j].cmd, "-DskipTests") <=> ~Has("--run-tests"))

\* C17 (amended): the compile command is "mvn clean package" followed by
\* -DskipTests exactly when skip_tests is true, and skip_tests is false
\* exactly when --run-tests is given and no --no-tests follows it on the
\* command line (the two flags write the same destination, the last wins);
\* it is true by default, with or without --no-tests.
C17_SkipTests ==
    script = "run_backend" =>
       /\ args.no_tests <=> ~RunTestsWins
       /\ \A j \in DOMAIN cmds :
             IsCompile(cmds[j].cmd) =>
                /\ cmds[j].step = "compile_project"
                /\ Mentions(cmds[j].cmd, "-DskipTests") <=> ~RunTestsWins
                /\ cmds[j].cmd = (IF RunTestsWins
                                  THEN <<"mvn", "clean", "package">>
                                  ELSE <<"mvn", "clean", "package", "-DskipTests">>)

\* "--no-tests --run-tests": the project was compiled with its tests.
C17_Witness ==
    /\ script = "run_backend"
    /\ argv = <<"--no-tests", "--run-tests">>
    /\ \E j \in DOMAIN cmds :
          /\ cmds[j].cmd = <<"mvn", "clean", "package">>
          /\ cmds[j].out = "ok"

\* The first command of step 1 is the detection of PostgreSQL.
Detected == cmds # << >> /\ cmds[1].out = "ok"

NotDetected == cmds # << >> /\ CommandFailed(cmds[1])

\* Every command of step 1 after the detection is install_postgresql's.
InstallInvoked == \E j \in DOMAIN cmds : j >= 2 /\ cmds[j].step = "check_postgresql"

\* What install_postgresql invokes first on the platforms it supports.
FirstInstallCommand ==
    CASE os_type = "Windows" -> <<"psql", "--version">>
      [] os_type = "Darwin" -> <<"which", "brew">>
      [] OTHER -> <<"which", "apt">>

C19_AutoInstall ==
    ( /\ script = "setup_postgresql"
      /\ ~psycopg2
      /\ Len(results) >= 2
      /\ results[2].step = "install_python_dependencies"
      /\ results[2].succeeded ) =>
       /\ exc = "none"
       /\ seq \in {"COMPLETED", "HALTED"} =>
             \E i \in DOMAIN results : results[i].step = "create_database"

NotSleep(e) == Exe(e.cmd) # SLEEP

\* C20: stop and restart modes run no startup step.  With --stop,
\* setup_and_run_docker.py and run_docker.py invoke only "docker-compose
\* down"; run_docker.py --restart without --stop invokes only
\* "docker-compose restart"; in these modes there is a single step, so no
\* Docker check, git pull or "docker-compose up" runs; with both --stop and
\* --restart only the stop is performed.
C20_StopRestart ==
    /\ (script \in {"setup_and_run_docker", "run_docker"} /\ Has("--stop")) =>
          /\ Len(cmds) <= 1
          /\ \A j \in DOMAIN cmds : cmds[j].cmd = <<"docker-compose", "down">>
          /\ Len(results) <= 1
          /\ \A i \in DOMAIN results : results[i].step = "stop_containers"
          /\ Len(Pipeline) = 1
    /\ (script = "run_docker" /\ Has("--restart") /\ ~Has("--stop")) =>
          /\ cmds # << >> => cmds[1].cmd = <<"docker-compose", "restart">>
          /\ \A j \in DOMAIN cmds : j >= 2 => ~NotSleep(cmds[j])
          /\ Len(results) <= 1
          /\ \A i \in DOMAIN results : results[i].step = "restart_containers"
          /\ Len(Pipeline) = 1

\* run_docker.py with both --stop and --restart took the containers down,
\* exited 0 and invoked nothing else.
C20_Witness ==
    /\ script = "run_docker"
    /\ Has("--stop") /\ Has("--restart")
    /\ Exited /\ ExitCode = ExitSuccess
    /\ Len(cmds) = 1
    /\ cmds[1].cmd = <<"docker-compose", "down">>
    /\ cmds[1].out = "ok"

\* C21: build_and_start_containers invokes exactly one command: exactly
\* "docker-compose up -d" when no_build is true (--no-build) and exactly
\* "docker-compose up --build -d" when it is false; with --no-build no
\* command of the run asks for a rebuild.
C21_UpCommand ==
    script = "setup_and_run_docker" =>
       /\ \A j \in DOMAIN cmds :
             cmds[j].step = "build_and_start_containers" =>
                /\ cmds[j].cmd = (IF Has("--no-build")
                                  THEN <<"docker-compose", "up", "-d">>
                                  ELSE <<"docker-compose", "up", "--build", "-d">>)
                /\ \A i \in DOMAIN cmds :
                      cmds[i].step = "build_and_start_containers" => i = j
       /\ \A i \in DOMAIN results :
             results[i].step = "build_and_start_containers" =>
                \E j \in DOMAIN cmds : cmds[j].step = "build_and_start_containers"
       /\ Has("--no-build") => \A j \in DOMAIN cmds : ~Mentions(cmds[j].cmd, "--build")

\* setup_and_run_docker.py --no-build started the containers without a
\* rebuild and exited 0.
C21_Witness ==
    /\ script = "setup_and_run_docker"
    /\ Has("--no-build")
    /\ Exited /\ ExitCode = ExitSuccess
    /\ \E j \in DOMAIN cmds :
          cmds[j].cmd = <<"docker-compose", "up", "-d">> /\ cmds[j].out = "ok"

IsGit(e) == Exe(e.cmd) = "git"

\* Where a git command was invoked: --pull was given, it is "git pull", it
\* is the fourth command and belongs to the fourth step, the three Docker
\* checks before it exited 0 and their steps succeeded, and the
\* docker-compose.yml check is the step after it.
PullInPlace ==
    \A j \in DOMAIN cmds :
       IsGit(cmds[j]) =>
          /\ Has("--pull") /\ ~Has("--stop")
          /\ cmds[j].cmd = <<"git", "pull">>
          /\ cmds[j].step = "pull_latest_code"
          /\ j = 4 /\ cmds[j].idx = 4
          /\ cmds[1].cmd = <<"docker", "--version">> /\ cmds[1].out = "ok"
          /\ cmds[2].cmd = <<"docker", "ps">> /\ cmds[2].out = "ok"
          /\ cmds[3].cmd = <<"docker-compose", "--version">> /\ cmds[3].out = "ok"
          /\ \A i \in 1..3 : results[i].succeeded
          /\ Pipeline[5].step = "check_docker_compose_file"
          /\ \A i \in DOMAIN results :
                results[i].step = "check_docker_compose_file" => i > cmds[j].idx
          /\ \A i \in DOMAIN cmds : IsGit(cmds[i]) => i = j

\* At the moment git is invoked the docker-compose.yml check has not started.
PullBeforeComposeFileCheck ==
    (Len(cmds') > Len(cmds) /\ IsGit(cmds'[Len(cmds')])) =>
       \A k \in DOMAIN Pipeline :
          Pipeline[k].step = "check_docker_compose_file" =>
             (state[k] = "PENDING" /\ state'[k] = "PENDING")

\* C22: in setup_and_run_docker.py "git pull" is invoked only when --pull
\* was given, only after the Docker-installed, Docker-daemon and
\* Docker-Compose checks have all succeeded, and always before the
\* docker-compose.yml check; without --pull no git command is ever invoked.
C22_PullOptional ==
    /\ [](script = "setup_and_run_docker" => PullInPlace)
    /\ [][script = "setup_and_run_docker" => PullBeforeComposeFileCheck]_vars

\* --pull: the code was pulled after the three checks and the run went on
\* to the docker-compose.yml check.
C22_Witness ==
    /\ script = "setup_and_run_docker"
    /\ Has("--pull")
    /\ Len(cmds) >= 4
    /\ cmds[4].cmd = <<"git", "pull">>
    /\ cmds[4].out = "ok"
    /\ \E i \in DOMAIN results : results[i].step = "check_docker_compose_file"

\* Every run exits.
EventuallyExits == <>Exited

\* The pipeline position never goes back, and a step that left PENDING never
\* returns to it.
NoLoopBack ==
    [][ /\ pc' >= pc
        /\ \A k \in DOMAIN state : state[k] # "PENDING" => state'[k] # "PENDING" ]_vars

\* Unless the operator interrupted it, the run exits with its sequence
\* COMPLETED or HALTED.
EndsInTerminalState ==
    <>(Exited /\ (Interrupted(cmds) \/ seq \in {"COMPLETED", "HALTED"}))

\* C23: termination.  Given that every external command and sleep returns,
\* every run of every script eventually reaches COMPLETED or HALTED and
\* exits, and no control path goes back to an earlier step.
C23_Termination == EndsInTerminalState /\ NoLoopBack

=============================================================================
